---- MODULE Spec2Model ----
(***************************************************************************)
(* A model of SimplePlayer (src/bot.py): the tournament poker bot's        *)
(* lifecycle callbacks, its decision function get_action with the preflop  *)
(* and postflop strategies, and the two hand evaluators.                   *)
(*                                                                         *)
(* Conventions.                                                            *)
(*  - A card is the two-character string of the source, kept as the pair   *)
(*    <<rank character, suit character>>: card[0] is c[1], card[1] is c[2].*)
(*  - Every strength the source returns is a decimal with two digits; it   *)
(*    is kept as the integer number of hundredths (0.95 is 95).  The       *)
(*    position adjustment is +-0.08, so an adjusted strength never lies on *)
(*    a threshold (all thresholds are multiples of 0.05) unless the        *)
(*    adjustment is 0, and the comparisons agree with the float ones.      *)
(*  - pot_odds is the fraction amount_to_call / total_pot; it is kept as   *)
(*    the pair <<numerator, denominator>> and compared by cross            *)
(*    multiplication.                                                      *)
(***************************************************************************)
EXTENDS Integers, Sequences, FiniteSets, TLC

VARIABLES
    hand,               \* self.hand
    starting_chips,     \* self.starting_chips
    current_chips,      \* self.current_chips
    big_blind_amount,   \* self.big_blind_amount
    small_blind_amount, \* self.small_blind_amount
    game_count,         \* self.game_count
    all_players,        \* self.all_players
    position,           \* self.position
    total_games_played, \* self.total_games_played
    opponent_stats,     \* self.opponent_stats
    late_tournament,    \* self.late_tournament
    performance_history,\* self.performance_history, an attribute set on first use
    engine,             \* what the game engine passed: on_start's chips, the end games
    shadow_stats,       \* opponent_stats of a second bot driven by the same calls
    board,              \* the community cards on the table
    call,               \* the last operation called, with its arguments
    ret,                \* what the last operation returned or raised
    shadow_ret          \* what it returned or raised for the second bot

vars == <<hand, starting_chips, current_chips, big_blind_amount,
          small_blind_amount, game_count, all_players, position,
          total_games_played, opponent_stats, late_tournament,
          performance_history, engine, shadow_stats,
          board, call, ret, shadow_ret>>

bot_fields == <<starting_chips, current_chips, big_blind_amount,
                small_blind_amount, game_count, all_players, position,
                total_games_played, opponent_stats, late_tournament,
                performance_history, engine, shadow_stats>>

----------------------------------------------------------------------------
(* Helpers on sequences and sets of integers.                              *)

Range(s) == {s[i] : i \in DOMAIN s}

CountOf(x, s) == Cardinality({i \in DOMAIN s : s[i] = x})

Max(S) == CHOOSE x \in S : \A y \in S : y <= x

Min2(a, b) == IF a <= b THEN a ELSE b

----------------------------------------------------------------------------
(* Cards.                                                                  *)

\* '23456789TJQKA', the rank order of has_straight and of the top-pair test
rank_order == <<"2", "3", "4", "5", "6", "7", "8", "9", "T", "J", "Q", "K", "A">>

\* '...'.index(x): the 0-based place of x in rank_order
RankIndex(x) == (CHOOSE i \in DOMAIN rank_order : rank_order[i] = x) - 1

\* the dict rank_values of get_preflop_hand_strength
rank_values == [x \in Range(rank_order) |-> RankIndex(x) + 2]

SuitChars == <<"h", "s", "d", "c">>

\* [card[0] for card in cards] and [card[1] for card in cards]
RanksOf(cards) == [i \in DOMAIN cards |-> cards[i][1]]
SuitsOf(cards) == [i \in DOMAIN cards |-> cards[i][2]]

----------------------------------------------------------------------------
(* The postflop evaluator.                                                 *)

\* rank_counts: the dict built by the counting loop
rank_counts(all_ranks) == [x \in Range(all_ranks) |-> CountOf(x, all_ranks)]

max_count(all_ranks) ==
    Max({rank_counts(all_ranks)[x] : x \in Range(all_ranks)})

pair_count(all_ranks) ==
    Cardinality({x \in Range(all_ranks) : rank_counts(all_ranks)[x] >= 2})

\* max(suit_counts.values()) of has_flush and has_flush_draw
MaxSuitCount(cards) ==
    Max({CountOf(s, SuitsOf(cards)) : s \in Range(SuitsOf(cards))})

\* has_flush with the threshold of has_flush_draw
has_flush_four(hole_cards, brd) == MaxSuitCount(hole_cards \o brd) >= 4

has_flush(hole_cards, brd) == MaxSuitCount(hole_cards \o brd) >= 5

has_flush_draw(hole_cards, brd) == MaxSuitCount(hole_cards \o brd) >= 4

\* has_straight that also accepts the ace-low run A,2,3,4,5
has_straight_wheel(hole_cards, brd) ==
    LET ranks == Range(RanksOf(hole_cards \o brd))
    IN  \/ \E i \in 0 .. (Len(rank_order) - 4 - 1) :
              \A j \in (i + 1) .. (i + 5) : rank_order[j] \in ranks
        \/ {"A", "2", "3", "4", "5"} \subseteq ranks

has_straight(hole_cards, brd) ==
    LET ranks == Range(RanksOf(hole_cards \o brd))
    IN  \E i \in 0 .. (Len(rank_order) - 4 - 1) :
            \A j \in (i + 1) .. (i + 5) : rank_order[j] \in ranks

has_straight_draw(hole_cards, brd) ==
    LET ranks == Range(RanksOf(hole_cards \o brd))
    IN  \E i \in 0 .. (Len(rank_order) - 3 - 1) :
            Cardinality({j \in (i + 1) .. (i + 4) : rank_order[j] \in ranks}) >= 3

\* the top-pair test with min() in place of max()
LowBoardRank(board_ranks) ==
    CHOOSE x \in Range(board_ranks) :
        \A y \in Range(board_ranks) : RankIndex(x) <= RankIndex(y)

\* max(board_ranks, key=index): the board rank that comes last in rank_order
TopBoardRank(board_ranks) ==
    CHOOSE x \in Range(board_ranks) :
        \A y \in Range(board_ranks) : RankIndex(y) <= RankIndex(x)

\* the index() call of the top-pair test raises ValueError on a rank character
\* that is not in rank_order; the except clause then returns 0.35
TopPairRaises(board_ranks) ==
    \E x \in Range(board_ranks) : x \notin Range(rank_order)

\* the guard "not hole_cards or not board" widened to every short hand
is_short_input(hole_cards, brd) == Len(hole_cards) + Len(brd) < 5

\* not hole_cards or not board
is_empty_input(hole_cards, brd) == hole_cards = <<>> \/ brd = <<>>

\* the full-house test left out, so that the hand falls through to trips
never_full_house(mc, pc) == FALSE

\* max_count >= 3 and pair_count >= 2
is_full_house(mc, pc) == mc >= 3 /\ pc >= 2

evaluate_postflop_hand(hole_cards, brd) ==
    IF is_empty_input(hole_cards, brd) THEN 30
    ELSE
      LET hole_ranks  == RanksOf(hole_cards)
          board_ranks == RanksOf(brd)
          all_ranks   == hole_ranks \o board_ranks
          mc          == max_count(all_ranks)
          pc          == pair_count(all_ranks)
      IN  IF mc >= 4 THEN 95
          ELSE IF is_full_house(mc, pc) THEN 90
          ELSE IF has_flush(hole_cards, brd) THEN 85
          ELSE IF has_straight(hole_cards, brd) THEN 80
          ELSE IF mc >= 3 THEN 75
          ELSE IF pc >= 2 THEN 65
          ELSE IF mc >= 2 THEN
              IF TopPairRaises(board_ranks) THEN 35
              ELSE IF TopBoardRank(board_ranks) \in Range(hole_ranks) THEN 60
              ELSE 50
          ELSE IF has_flush_draw(hole_cards, brd)
                  \/ has_straight_draw(hole_cards, brd) THEN 45
          ELSE 35

----------------------------------------------------------------------------
(* Outcomes of a call.                                                     *)

\* A round state: the fields of RoundStateClient the bot reads.  player_bets
\* maps player ids to bets; has_player_bets is FALSE for a round state whose
\* player_bets is None, on which every "in" test raises TypeError.  The
\* source looks a player up by its id and by str(id) and returns the same
\* bet either way, so the keys are kept as the ids.
NoRoundState == [round_num |-> 0, current_bet |-> 0, pot |-> 0,
                 has_player_bets |-> TRUE, player_bets |-> <<>>,
                 community_cards |-> <<>>]

\* draw is the value of random.random() in hundredths
NoCall == [op |-> "none", round_state |-> NoRoundState, remaining_chips |-> 0,
           draw |-> 0]

NoRet == [kind |-> "none", action |-> "", amount |-> 0, value |-> 0]

Value(v) == [kind |-> "return", action |-> "", amount |-> 0, value |-> v]

Action(a, n) == [kind |-> "return", action |-> a, amount |-> n, value |-> 0]

Raise(e) == [kind |-> "raise", action |-> e, amount |-> 0, value |-> 0]

----------------------------------------------------------------------------
(* The fields of a bot after __init__.                                     *)

\* the counters on_start gives a new opponent
ZeroCounters == [hands_played |-> 0, vpip |-> 0, aggression |-> 0,
                 fold_to_aggression |-> 0, showdowns_won |-> 0,
                 total_showdowns |-> 0]

\* __init__ sets no performance_history: hasattr(self, 'performance_history')
\* is False until on_end_game creates the list
NoHistory == [hasattr |-> FALSE, list |-> <<>>]

\* engine is the record of the calls made so far: starting_chips is the
\* argument of the latest on_start (the 1000 of __init__ before the first),
\* end_games lists every on_end_game call as its player_score and the
\* starting chips in effect at the call
InitFields ==
    /\ starting_chips = 1000
    /\ current_chips = 1000
    /\ big_blind_amount = 10
    /\ small_blind_amount = 5
    /\ game_count = 0
    /\ all_players = <<>>
    /\ position = 0
    /\ total_games_played = 0
    /\ opponent_stats = [p \in {} |-> ZeroCounters]
    /\ late_tournament = FALSE
    /\ performance_history = NoHistory
    /\ engine = [starting_chips |-> 1000, end_games |-> <<>>]

----------------------------------------------------------------------------
(* SpecEval: the postflop evaluator applied to hands dealt from a short    *)
(* deck.  Hearts hold the LowRanks lowest ranks and the ace; the ranks in  *)
(* MultiSuitRanks come in all four suits.  The evaluator counts cards and  *)
(* never looks at their order, so the hole cards and the board are dealt   *)
(* in increasing card order.                                               *)

LowRanks == 5

MaxBoard == 5

MultiSuitRanks == {"2", "A"}

EvalDeck ==
    {<<rank_order[i], "h">> : i \in 1 .. LowRanks}
        \cup {<<"A", "h">>}
        \cup {<<x, SuitChars[j]>> : x \in MultiSuitRanks, j \in DOMAIN SuitChars}

CardKey(c) ==
    4 * RankIndex(c[1]) + (CHOOSE j \in DOMAIN SuitChars : SuitChars[j] = c[2])

EvalHands ==
    {<<>>} \cup {h \in EvalDeck \X EvalDeck : h[1] # h[2]}

InitEval ==
    /\ InitFields
    /\ shadow_stats = [p \in {} |-> ZeroCounters]
    /\ hand \in {h \in EvalHands : h = <<>> \/ CardKey(h[1]) < CardKey(h[2])}
    /\ board = <<>>
    /\ call = NoCall
    /\ ret = NoRet
    /\ shadow_ret = NoRet

\* the dealer turns one more community card
DealBoard ==
    /\ Len(board) < MaxBoard
    /\ \E c \in EvalDeck \ (Range(hand) \cup Range(board)) :
          /\ IF board = <<>> THEN TRUE
                             ELSE CardKey(board[Len(board)]) < CardKey(c)
          /\ board' = Append(board, c)
    /\ call' = NoCall
    /\ ret' = NoRet
    /\ UNCHANGED <<hand, bot_fields, shadow_ret>>

\* evaluate_postflop_hand(self.hand, board)
EvaluatePostflop ==
    /\ call' = [NoCall EXCEPT !.op = "evaluate_postflop_hand"]
    /\ ret' = Value(evaluate_postflop_hand(hand, board))
    /\ UNCHANGED <<hand, board, bot_fields, shadow_ret>>

\* has_straight(self.hand, board); the value is 1 for True and 0 for False
HasStraight ==
    /\ call' = [NoCall EXCEPT !.op = "has_straight"]
    /\ ret' = Value(IF has_straight(hand, board) THEN 1 ELSE 0)
    /\ UNCHANGED <<hand, board, bot_fields, shadow_ret>>

NextEval == DealBoard \/ EvaluatePostflop \/ HasStraight

SpecEval == InitEval /\ [][NextEval]_vars

----------------------------------------------------------------------------
(* The preflop evaluator.  It returns a strength or raises KeyError on a   *)
(* rank character that rank_values does not hold.                          *)

\* the strength of two valid cards that are not a pair
NonPairStrength(rank1, rank2, suited) ==
    LET val1      == rank_values[rank1]
        val2      == rank_values[rank2]
        high_card == IF val1 >= val2 THEN val1 ELSE val2
        low_card  == IF val1 <= val2 THEN val1 ELSE val2
        gap       == high_card - low_card
    IN  IF {rank1, rank2} = {"A", "K"} THEN (IF suited THEN 80 ELSE 75)
        ELSE IF {rank1, rank2} = {"A", "Q"} THEN (IF suited THEN 70 ELSE 65)
        ELSE IF {rank1, rank2} = {"A", "J"} THEN (IF suited THEN 65 ELSE 60)
        ELSE IF {rank1, rank2} = {"K", "Q"} THEN (IF suited THEN 60 ELSE 55)
        ELSE IF high_card = 14 THEN
            IF low_card >= 10 THEN (IF suited THEN 60 ELSE 50)
            ELSE IF suited /\ low_card >= 5 THEN 45
            ELSE IF suited THEN 35
            ELSE IF low_card >= 9 THEN 45
            ELSE 25
        ELSE IF high_card >= 11 /\ low_card >= 10 THEN (IF suited THEN 55 ELSE 45)
        ELSE IF high_card >= 12 /\ low_card >= 9 THEN (IF suited THEN 45 ELSE 35)
        ELSE IF suited /\ gap \in {0, 1} THEN
            IF gap = 0 THEN
                IF high_card >= 9 THEN 50
                ELSE IF high_card >= 6 THEN 40
                ELSE 30
            ELSE
                IF high_card >= 10 THEN 45
                ELSE IF high_card >= 7 THEN 35
                ELSE 25
        ELSE IF gap = 0 /\ high_card >= 9 THEN 35
        ELSE 20

get_preflop_hand_strength(hole_cards) ==
    IF Len(hole_cards) # 2 THEN Value(20)
    ELSE
      LET rank1 == hole_cards[1][1]
          suit1 == hole_cards[1][2]
          rank2 == hole_cards[2][1]
          suit2 == hole_cards[2][2]
      IN  IF rank1 \notin DOMAIN rank_values \/ rank2 \notin DOMAIN rank_values
          THEN Raise("KeyError")
          ELSE IF rank_values[rank1] = rank_values[rank2] THEN
              IF rank_values[rank1] >= 13 THEN Value(95)
              ELSE IF rank_values[rank1] >= 11 THEN Value(85)
              ELSE IF rank_values[rank1] >= 8 THEN Value(70)
              ELSE Value(55)
          ELSE Value(NonPairStrength(rank1, rank2, suit1 = suit2))

----------------------------------------------------------------------------
(* SpecPreflop: the preflop evaluator applied to every ordered pair of     *)
(* cards of the 52-card deck, to hands of the wrong length and to a hand   *)
(* with a rank character that is no rank.                                  *)

FullDeck == {<<rank_order[i], SuitChars[j]>> :
                i \in DOMAIN rank_order, j \in DOMAIN SuitChars}

PreflopHands ==
    {h \in FullDeck \X FullDeck : h[1] # h[2]}
        \cup {<<>>, <<<<"A", "h">>>>, <<<<"1", "h">>, <<"K", "d">>>>}

InitPreflop ==
    /\ InitFields
    /\ shadow_stats = [p \in {} |-> ZeroCounters]
    /\ hand \in PreflopHands
    /\ board = <<>>
    /\ call = NoCall
    /\ ret = NoRet
    /\ shadow_ret = NoRet

\* get_preflop_hand_strength(self.hand)
EvaluatePreflop ==
    /\ call' = [NoCall EXCEPT !.op = "get_preflop_hand_strength"]
    /\ ret' = get_preflop_hand_strength(hand)
    /\ UNCHANGED <<hand, board, bot_fields, shadow_ret>>

NextPreflop == EvaluatePreflop

SpecPreflop == InitPreflop /\ [][NextPreflop]_vars

----------------------------------------------------------------------------
(* The decision function.  Its operators take the bot as a record self of  *)
(* the fields they may read; a pot_odds is the pair <<amount_to_call,       *)
(* total_pot>>.                                                            *)

\* self.id, set by the Bot base class
id == 1

\* the bot's fields as a record, with opponent_stats given
Self(stats) ==
    [hand |-> hand, starting_chips |-> starting_chips,
     current_chips |-> current_chips, big_blind_amount |-> big_blind_amount,
     small_blind_amount |-> small_blind_amount, game_count |-> game_count,
     all_players |-> all_players, position |-> position,
     total_games_played |-> total_games_played, opponent_stats |-> stats,
     late_tournament |-> late_tournament]

\* bb_ratio <= n, where bb_ratio is current_chips / big_blind_amount, or 50
\* when the big blind is not positive
BBRatioAtMost(self, n) ==
    IF self.big_blind_amount > 0
    THEN self.current_chips <= n * self.big_blind_amount
    ELSE 50 <= n

\* a stack situation that looks at the opponents' counters
get_stack_situation_by_opponents(self) ==
    IF \E p \in DOMAIN self.opponent_stats :
           self.opponent_stats[p].hands_played > 0
    THEN "deep"
    ELSE IF BBRatioAtMost(self, 10) THEN "critical"
    ELSE IF BBRatioAtMost(self, 20) THEN "short"
    ELSE IF BBRatioAtMost(self, 40) THEN "medium"
    ELSE "deep"

get_stack_situation(self) ==
    IF BBRatioAtMost(self, 10) THEN "critical"
    ELSE IF BBRatioAtMost(self, 20) THEN "short"
    ELSE IF BBRatioAtMost(self, 40) THEN "medium"
    ELSE "deep"

\* the value get_my_current_bet returns on a round state it can read
get_my_current_bet(round_state) ==
    IF id \in DOMAIN round_state.player_bets
    THEN round_state.player_bets[id]
    ELSE 0

calculate_pot_odds(round_state) ==
    LET my_bet         == get_my_current_bet(round_state)
        amount_to_call == round_state.current_bet - my_bet
        total_pot      == round_state.pot + amount_to_call
    IN  <<amount_to_call, total_pot>>

\* pot_odds < pct / 100; pot_odds is 0 when total_pot is not positive
OddsBelow(pot_odds, pct) ==
    IF pot_odds[2] > 0
    THEN 100 * pot_odds[1] < pct * pot_odds[2]
    ELSE 0 < pct

\* int(0.7 * pot): the float product falls just short of the integer at
\* 90, 170 and 180 (and nowhere else below 300)
Int07(pot) ==
    IF pot \in {90, 170, 180} THEN (7 * pot) \div 10 - 1 ELSE (7 * pot) \div 10

\* int(0.4 * pot) and int(0.5 * pot), exact below 300
Int04(pot) == (4 * pot) \div 10
Int05(pot) == (5 * pot) \div 10

\* the safety check left out
keep_amount(amount_to_call, remaining_chips) == amount_to_call

\* if amount_to_call > remaining_chips: amount_to_call = remaining_chips
clamp_amount(amount_to_call, remaining_chips) ==
    IF amount_to_call > remaining_chips THEN remaining_chips ELSE amount_to_call

\* With a medium or deep stack, nothing to call and a strength of 0.4 to
\* 0.7, the source draws random.random() and returns CHECK, 0 on either
\* side of 0.3, so the draw does not appear here.
preflop_strategy(self, amount_to_call, remaining_chips, pot_odds, stack_situation) ==
    LET strength == get_preflop_hand_strength(self.hand)
        position_adjustment ==
            IF self.position = 2 THEN 8
            ELSE IF self.position = 0 THEN -8
            ELSE 0
        adjusted_strength == strength.value + position_adjustment
    IN  IF strength.kind = "raise" THEN strength
        ELSE IF stack_situation = "critical" THEN
            IF adjusted_strength >= 60 THEN Action("RAISE", remaining_chips)
            ELSE IF amount_to_call = 0 THEN Action("CHECK", 0)
            ELSE IF adjusted_strength >= 40 /\ OddsBelow(pot_odds, 30)
                THEN Action("CALL", amount_to_call)
            ELSE Action("FOLD", 0)
        ELSE IF stack_situation = "short" THEN
            IF amount_to_call = 0 THEN
                IF adjusted_strength >= 70
                    THEN Action("RAISE", Min2(remaining_chips,
                                              self.big_blind_amount * 4))
                ELSE IF adjusted_strength >= 50 THEN Action("CHECK", 0)
                ELSE Action("FOLD", 0)
            ELSE
                IF adjusted_strength >= 80 THEN Action("RAISE", remaining_chips)
                ELSE IF adjusted_strength >= 60 /\ OddsBelow(pot_odds, 40)
                    THEN Action("CALL", amount_to_call)
                ELSE Action("FOLD", 0)
        ELSE
            IF amount_to_call = 0 THEN
                IF adjusted_strength >= 70
                    THEN Action("RAISE", Min2(self.big_blind_amount * 3,
                                              remaining_chips \div 4))
                ELSE IF adjusted_strength >= 40 THEN Action("CHECK", 0)
                ELSE Action("FOLD", 0)
            ELSE
                IF adjusted_strength >= 85
                    THEN Action("RAISE", Min2(amount_to_call * 3,
                                              remaining_chips \div 3))
                ELSE IF adjusted_strength >= 60 THEN
                    IF OddsBelow(pot_odds, 35) THEN Action("CALL", amount_to_call)
                    ELSE Action("FOLD", 0)
                ELSE IF adjusted_strength >= 40 /\ OddsBelow(pot_odds, 20)
                    THEN Action("CALL", amount_to_call)
                ELSE Action("FOLD", 0)

postflop_strategy(self, brd, amount_to_call, remaining_chips, pot_odds, round_state, draw) ==
    IF brd = <<>> THEN Action("FOLD", 0)
    ELSE
      LET hand_strength   == evaluate_postflop_hand(self.hand, brd)
          stack_situation == get_stack_situation(self)
      IN  IF stack_situation \in {"critical", "short"} THEN
              IF amount_to_call = 0 THEN
                  IF hand_strength >= 70
                      THEN Action("RAISE", Min2(round_state.pot \div 2,
                                                remaining_chips \div 3))
                  ELSE Action("CHECK", 0)
              ELSE
                  IF hand_strength >= 80 THEN Action("RAISE", remaining_chips)
                  ELSE IF hand_strength >= 60 /\ OddsBelow(pot_odds, 30)
                      THEN Action("CALL", amount_to_call)
                  ELSE Action("FOLD", 0)
          ELSE
              IF amount_to_call = 0 THEN
                  IF hand_strength >= 75
                      THEN Action("RAISE", Min2(Int07(round_state.pot),
                                                remaining_chips \div 3))
                  ELSE IF hand_strength >= 50
                      THEN Action("RAISE", Min2(Int04(round_state.pot),
                                                remaining_chips \div 4))
                  ELSE IF draw < 15
                      THEN Action("RAISE", Min2(Int05(round_state.pot),
                                                remaining_chips \div 5))
                  ELSE Action("CHECK", 0)
              ELSE
                  IF hand_strength >= 80
                      THEN Action("RAISE", Min2(amount_to_call * 2,
                                                remaining_chips \div 2))
                  ELSE IF hand_strength >= 60 /\ OddsBelow(pot_odds, 40)
                      THEN Action("CALL", amount_to_call)
                  ELSE IF hand_strength >= 40 /\ OddsBelow(pot_odds, 25)
                      THEN Action("CALL", amount_to_call)
                  ELSE Action("FOLD", 0)

\* the except clause of get_action, entered with amount_to_call bound
emergency_fallback(amount_to_call, remaining_chips) ==
    IF amount_to_call = 0 THEN Action("CHECK", 0)
    ELSE IF amount_to_call <= remaining_chips \div 20
        THEN Action("CALL", amount_to_call)
    ELSE Action("FOLD", 0)

\* get_action on a bot whose current_chips is already remaining_chips.  On a
\* round state whose player_bets cannot be read, get_my_current_bet raises
\* before amount_to_call is bound, and the except clause's own test of
\* amount_to_call raises UnboundLocalError, which leaves get_action.
get_action(self, round_state, remaining_chips, draw) ==
    IF ~round_state.has_player_bets THEN Raise("UnboundLocalError")
    ELSE
      LET my_bet          == get_my_current_bet(round_state)
          pot_odds        == calculate_pot_odds(round_state)
          stack_situation == get_stack_situation(self)
          amount_to_call  == clamp_amount(round_state.current_bet - my_bet,
                                          remaining_chips)
          answer ==
              IF round_state.round_num = 1
              THEN preflop_strategy(self, amount_to_call, remaining_chips,
                                    pot_odds, stack_situation)
              ELSE postflop_strategy(self, round_state.community_cards,
                                     amount_to_call, remaining_chips,
                                     pot_odds, round_state, draw)
      IN  IF answer.kind = "raise"
          THEN emergency_fallback(amount_to_call, remaining_chips)
          ELSE answer

----------------------------------------------------------------------------
(* Spec: the lifecycle callbacks and get_action, called by the game engine *)
(* one at a time.  The engine takes the answer of get_action before it     *)
(* calls the bot again.  A second bot receives the same calls; it differs  *)
(* from the first only in the contents of its opponent_stats.              *)

MaxGames == 3

MaxRounds == 1

\* chip counts: with big blind 2 the stack is critical (0, 20), short (30) or
\* deep (100); with big blind 4 it is medium at 100
Chips == {0, 20, 30, 100}

\* random.random() below and above the bluff threshold 0.15
Draws == {10, 50}

HandAA  == <<<<"A", "h">>, <<"A", "s">>>>
HandAKs == <<<<"A", "h">>, <<"K", "h">>>>
HandAJo == <<<<"A", "s">>, <<"J", "c">>>>
HandT9s == <<<<"T", "h">>, <<"9", "h">>>>
Hand72o == <<<<"7", "d">>, <<"2", "c">>>>
\* a hand with a character that is no rank
HandBad == <<<<"1", "h">>, <<"K", "d">>>>

Hands == {HandAA, HandAKs, HandAJo, HandT9s, Hand72o, HandBad, <<>>}

StartInputs ==
    {[starting_chips |-> 100, player_hands |-> h, blind_amount |-> 2,
      all_players |-> <<1, 2, 3>>] : h \in Hands}
    \cup
    {[starting_chips |-> 60, player_hands |-> HandAKs, blind_amount |-> 4,
      all_players |-> <<1, 2, 3, 4>>],
     [starting_chips |-> 100, player_hands |-> HandAA, blind_amount |-> 0,
      all_players |-> <<1, 2, 3, 4>>]}

Boards ==
    {<<<<"A", "d">>, <<"A", "c">>, <<"2", "s">>>>,
     <<<<"Q", "h">>, <<"J", "h">>, <<"2", "h">>>>,
     <<<<"K", "d">>, <<"8", "c">>, <<"3", "s">>>>}

\* <<current_bet, own bet>>
Bets == {<<0, 0>>, <<4, 0>>, <<10, 4>>, <<30, 0>>}

\* an empty pot, and a pot at which int(0.7 * pot) rounds down to 62 and a
\* call of 30 gives pot odds of exactly 0.25
Pots == {0, 90}

\* round states at the start of a betting round: 3 or 4 players, no bets
RoundStartStates ==
    {[NoRoundState EXCEPT !.round_num = 1,
                          !.player_bets = [p \in 1 .. n |-> 0]] : n \in {3, 4}}

\* round states get_action is called with: round 1 with no community
\* cards, later rounds with none or with a board; the own bet is listed in
\* player_bets, or it is 0 and not listed; or player_bets is None
ActionRoundStates ==
    {[round_num |-> rb[1], current_bet |-> b[1], pot |-> pt,
      has_player_bets |-> TRUE,
      player_bets |-> [p \in 1 .. 3 |-> IF p = id THEN b[2] ELSE b[1]],
      community_cards |-> rb[2]] :
        rb \in {<<1, <<>>>>, <<2, <<>>>>} \cup ({2} \X Boards),
        b \in Bets, pt \in Pots}
    \cup
    {[round_num |-> r, current_bet |-> 4, pot |-> 90,
      has_player_bets |-> TRUE,
      player_bets |-> [p \in 2 .. 3 |-> 4],
      community_cards |-> <<>>] : r \in {1, 2}}
    \cup
    {[round_num |-> r, current_bet |-> 4, pot |-> 90,
      has_player_bets |-> FALSE,
      player_bets |-> <<>>,
      community_cards |-> <<>>] : r \in {1, 2}}

\* the second bot's opponent_stats after construction
ShadowStats ==
    [p \in {2} |-> [ZeroCounters EXCEPT !.hands_played = 5, !.vpip = 3]]

Init ==
    /\ InitFields
    /\ shadow_stats = ShadowStats
    /\ hand = <<>>
    /\ board = <<>>
    /\ call = NoCall
    /\ ret = NoRet
    /\ shadow_ret = NoRet

\* the loop of on_start over all_players
track_opponents(stats, players) ==
    [p \in (DOMAIN stats) \cup {q \in Range(players) : q # id} |->
        IF p \in DOMAIN stats THEN stats[p] ELSE ZeroCounters]

\* the body of on_start, called with the arguments in
StartWith(in) ==
    /\ hand' = in.player_hands
    /\ starting_chips' = in.starting_chips
    /\ current_chips' = in.starting_chips
    /\ big_blind_amount' = in.blind_amount
    /\ small_blind_amount' = in.blind_amount \div 2
    /\ all_players' = in.all_players
    /\ opponent_stats' = track_opponents(opponent_stats, in.all_players)
    /\ shadow_stats' = track_opponents(shadow_stats, in.all_players)
    /\ engine' = [engine EXCEPT !.starting_chips = in.starting_chips]
    /\ game_count' = game_count + 1
    /\ UNCHANGED <<position, total_games_played, late_tournament,
                   performance_history, board, call, ret, shadow_ret>>

on_start ==
    /\ call.op = "none"
    /\ game_count < MaxGames
    /\ \E in \in StartInputs : StartWith(in)

calculate_position(self, round_state) ==
    LET active_players == Cardinality(DOMAIN round_state.player_bets)
    IN  IF active_players <= 3 THEN 2
        ELSE IF self.game_count % 3 = 0 THEN 0
        ELSE IF self.game_count % 3 = 1 THEN 1
        ELSE 2

on_round_start ==
    /\ call.op = "none"
    /\ \E round_state \in RoundStartStates, remaining_chips \in Chips :
          /\ current_chips' = remaining_chips
          /\ position' = calculate_position(Self(opponent_stats), round_state)
          /\ late_tournament' =
                ((IF big_blind_amount > 0
                  THEN remaining_chips < 20 * big_blind_amount
                  ELSE 50 < 20)
                 \/ game_count > 50)
    /\ UNCHANGED <<hand, starting_chips, big_blind_amount, small_blind_amount,
                   game_count, all_players, total_games_played,
                   opponent_stats, performance_history, engine, shadow_stats,
                   board, call, ret, shadow_ret>>

on_end_round ==
    /\ call.op = "none"
    /\ total_games_played < MaxRounds
    /\ \E remaining_chips \in Chips : current_chips' = remaining_chips
    /\ total_games_played' = total_games_played + 1
    /\ UNCHANGED <<hand, starting_chips, big_blind_amount, small_blind_amount,
                   game_count, all_players, position, opponent_stats,
                   late_tournament, performance_history, engine, shadow_stats,
                   board, call, ret, shadow_ret>>

\* get_action(round_state, remaining_chips), with the value random.random()
\* would draw; the assignment to self.current_chips comes first and stays
GetAction ==
    /\ call.op = "none"
    /\ \E round_state \in ActionRoundStates, remaining_chips \in Chips,
          draw \in Draws :
          /\ current_chips' = remaining_chips
          /\ call' = [op |-> "get_action", round_state |-> round_state,
                      remaining_chips |-> remaining_chips, draw |-> draw]
          /\ ret' = get_action(
                 [Self(opponent_stats) EXCEPT !.current_chips = remaining_chips],
                 round_state, remaining_chips, draw)
          /\ shadow_ret' = get_action(
                 [Self(shadow_stats) EXCEPT !.current_chips = remaining_chips],
                 round_state, remaining_chips, draw)
    /\ UNCHANGED <<hand, starting_chips, big_blind_amount, small_blind_amount,
                   game_count, all_players, position, total_games_played,
                   opponent_stats, late_tournament, performance_history,
                   engine, shadow_stats, board>>

\* the engine takes the answer (or the exception) of get_action
TakeAnswer ==
    /\ call.op = "get_action"
    /\ call' = NoCall
    /\ ret' = NoRet
    /\ shadow_ret' = NoRet
    /\ UNCHANGED <<hand, bot_fields, board>>

Next == on_start \/ on_round_start \/ on_end_round \/ GetAction \/ TakeAnswer

Spec == Init /\ [][Next]_vars

----------------------------------------------------------------------------
(* SpecHistory: games started and ended.  on_start and on_end_game are the *)
(* only callbacks that touch starting_chips or performance_history, so the *)
(* engine calls only these two here, with few starting stacks and scores   *)
(* and with enough end games for the history to be cut more than once.     *)
(* player_score is a float in the source; the scores here are whole        *)
(* numbers, on which the float subtraction is exact.                       *)

\* the 10 of "Keep only recent performance (last 10 games)"
HistoryLimit == 10

MaxEndGames == 11

MaxHistoryGames == 2

Scores == {90, 120}

HistoryStartInputs ==
    {[starting_chips |-> c, player_hands |-> HandAA, blind_amount |-> 2,
      all_players |-> <<1, 2>>] : c \in {100, 60}}

\* on_start, for the games of SpecHistory
on_start_game ==
    /\ call.op = "none"
    /\ game_count < MaxHistoryGames
    /\ \E in \in HistoryStartInputs : StartWith(in)

\* the cut that keeps the first entries instead of the last
keep_first(history) ==
    IF Len(history) > HistoryLimit
    THEN SubSeq(history, 1, HistoryLimit)
    ELSE history

\* if len(...) > 10: performance_history = performance_history[-10:]
keep_recent(history) ==
    IF Len(history) > HistoryLimit
    THEN SubSeq(history, Len(history) - HistoryLimit + 1, Len(history))
    ELSE history

on_end_game ==
    /\ call.op = "none"
    /\ Len(engine.end_games) < MaxEndGames
    /\ \E player_score \in Scores :
          LET delta == player_score - starting_chips
              appended ==
                  IF performance_history.hasattr
                  THEN Append(performance_history.list, delta)
                  ELSE <<delta>>
          IN  /\ performance_history' =
                    [hasattr |-> TRUE, list |-> keep_recent(appended)]
              /\ engine' =
                    [engine EXCEPT !.end_games =
                        Append(@, [player_score |-> player_score,
                                   starting_chips |-> engine.starting_chips])]
    /\ UNCHANGED <<hand, starting_chips, current_chips, big_blind_amount,
                   small_blind_amount, game_count, all_players, position,
                   total_games_played, opponent_stats, late_tournament,
                   shadow_stats, board, call, ret, shadow_ret>>

NextHistory == on_start_game \/ on_end_game

SpecHistory == Init /\ [][NextHistory]_vars

----------------------------------------------------------------------------
(* What the claims about the postflop evaluator speak of: the cards of the *)
(* current hand, counted without the evaluator's own definitions.          *)

Cards == hand \o board

NumCards == Len(Cards)

OfRank(x) == Cardinality({i \in DOMAIN Cards : Cards[i][1] = x})

OfSuit(s) == Cardinality({i \in DOMAIN Cards : Cards[i][2] = s})

RankChars == {Cards[i][1] : i \in DOMAIN Cards}

FaceValue ==
    ("2" :> 2) @@ ("3" :> 3) @@ ("4" :> 4) @@ ("5" :> 5) @@ ("6" :> 6) @@
    ("7" :> 7) @@ ("8" :> 8) @@ ("9" :> 9) @@ ("T" :> 10) @@ ("J" :> 11) @@
    ("Q" :> 12) @@ ("K" :> 13) @@ ("A" :> 14)

FaceValues == {FaceValue[x] : x \in RankChars}

FourOfAKindHand == \E x \in RankChars : OfRank(x) >= 4

FullHouseHand ==
    \E x, y \in RankChars : x # y /\ OfRank(x) >= 3 /\ OfRank(y) >= 2

FlushHand == \E s \in {"h", "s", "d", "c"} : OfSuit(s) >= 5

StraightHand == \E lo \in 2 .. 10 : \A k \in 0 .. 4 : (lo + k) \in FaceValues

StraightFlushHand ==
    \E s \in {"h", "s", "d", "c"} : \E lo \in 2 .. 10 : \A k \in 0 .. 4 :
        \E i \in DOMAIN Cards :
            FaceValue[Cards[i][1]] = lo + k /\ Cards[i][2] = s

ThreeOfAKindHand == \E x \in RankChars : OfRank(x) >= 3

TwoPairHand ==
    \E x, y \in RankChars : x # y /\ OfRank(x) >= 2 /\ OfRank(y) >= 2

OnePairHand == \E x \in RankChars : OfRank(x) >= 2

\* the run A,2,3,4,5 is there and no ace-high run is
WheelOnlyHand == {14, 2, 3, 4, 5} \subseteq FaceValues /\ ~StraightHand

\* the category of the hand, first match in the order of the claim:
\* 1 four of a kind, 2 full house, 3 flush, 4 straight, 5 three of a kind,
\* 6 two pair, 7 one pair, 8 high card
Category ==
    IF FourOfAKindHand THEN 1
    ELSE IF FullHouseHand THEN 2
    ELSE IF FlushHand THEN 3
    ELSE IF StraightHand THEN 4
    ELSE IF ThreeOfAKindHand THEN 5
    ELSE IF TwoPairHand THEN 6
    ELSE IF OnePairHand THEN 7
    ELSE 8

\* the strengths (in hundredths) a hand of each category may get
CategoryScores ==
    <<{95}, {90}, {85}, {80}, {75}, {65}, {60, 50}, {45, 35}>>

Evaluated == call.op = "evaluate_postflop_hand"

FullHand == hand # <<>> /\ board # <<>> /\ NumCards \in 5 .. 7

\* the highest board rank is the rank of one of the hole cards
TopBoardInHole ==
    \E i \in DOMAIN board :
        /\ \A j \in DOMAIN board : FaceValue[board[j][1]] <= FaceValue[board[i][1]]
        /\ \E k \in DOMAIN hand : hand[k][1] = board[i][1]

Without(s, i) == [k \in 1 .. (Len(s) - 1) |-> IF k < i THEN s[k] ELSE s[k + 1]]

\* every way to call two of the cards the hole cards and the rest the board
Resplits ==
    {<<<<Cards[p[1]], Cards[p[2]]>>, Without(Without(Cards, p[2]), p[1])>> :
        p \in {q \in (DOMAIN Cards) \X (DOMAIN Cards) : q[1] < q[2]}}

\* reference hands of the short deck: four of a kind, trips only, flush only
QuadsScore ==
    evaluate_postflop_hand(<<<<"2", "h">>, <<"2", "s">>>>,
                           <<<<"2", "d">>, <<"2", "c">>, <<"3", "h">>>>)

TripsOnlyScore ==
    evaluate_postflop_hand(<<<<"2", "h">>, <<"2", "s">>>>,
                           <<<<"2", "d">>, <<"3", "h">>, <<"A", "s">>>>)

FlushOnlyScore ==
    evaluate_postflop_hand(<<<<"3", "h">>, <<"4", "h">>>>,
                           <<<<"5", "h">>, <<"6", "h">>, <<"A", "h">>>>)

----------------------------------------------------------------------------
(* Claims about the postflop evaluator, checked under SpecEval.            *)

\* C1: with hole cards and a non-empty board of 5 to 7 cards in total, the
\* evaluator's strength is one of the strengths of the hand's category, the
\* category being the first match in the order four of a kind, full house,
\* flush, straight, three of a kind, two pair, one pair, high card; and every
\* strength of an earlier category is strictly higher than every strength of
\* a later one.
C1_CategoryOrder ==
    (Evaluated /\ FullHand) =>
        /\ ret.kind = "return"
        /\ ret.value \in CategoryScores[Category]
        /\ \A k, l \in DOMAIN CategoryScores :
              k < l => \A a \in CategoryScores[k] :
                           \A b \in CategoryScores[l] : a > b

\* a seven-card hand with trips and a straight, scored as a straight
C1_Witness ==
    /\ Evaluated /\ FullHand /\ NumCards = 7
    /\ StraightHand /\ ThreeOfAKindHand /\ ~FlushHand
    /\ ret.value = 80

\* C2 as stated: a full-house-shaped hand (three of one rank and a pair of
\* another, no four of a kind) gets the strength of a trips-only hand and no
\* more than the strength of a flush.
C2_FullHouseAsTrips ==
    (Evaluated /\ FullHand /\ FullHouseHand /\ ~FourOfAKindHand) =>
        (ret.value = TripsOnlyScore /\ ret.value <= FlushOnlyScore)

\* C2 as amended: a full-house-shaped hand without four of a kind gets 0.90,
\* a tier of its own: every flush hand and every trips-only hand (no four of
\* a kind, no full house) gets strictly less, every four of a kind strictly
\* more.
C2_FullHouseOwnTier ==
    (Evaluated /\ FullHand) =>
        /\ (FullHouseHand /\ ~FourOfAKindHand) =>
              (ret.value = 90 /\ ret.value > FlushOnlyScore
                              /\ ret.value > TripsOnlyScore)
        /\ ((FlushHand \/ ThreeOfAKindHand) /\ ~FullHouseHand /\ ~FourOfAKindHand)
              => ret.value < 90
        /\ FourOfAKindHand => ret.value > 90

\* a seven-card full house scored 0.90
C2_Witness ==
    /\ Evaluated /\ FullHand /\ NumCards = 7
    /\ FullHouseHand /\ ~FourOfAKindHand
    /\ ret.value = 90

\* C3: a straight flush scores strictly higher than every four of a kind.
C3_StraightFlushTop ==
    (Evaluated /\ FullHand /\ StraightFlushHand) => ret.value > QuadsScore

\* C4: has_straight is true exactly when the distinct ranks hold five
\* consecutive ranks of 2,3,...,K,A with the ace high only; a hand whose only
\* run is A,2,3,4,5, with no pair and no flush, is scored as high card.
C4_StraightAceHighOnly ==
    /\ call.op = "has_straight" => (ret.value = 1 <=> StraightHand)
    /\ (Evaluated /\ FullHand /\ WheelOnlyHand /\ ~OnePairHand /\ ~FlushHand)
          => ret.value \in CategoryScores[8]

\* has_straight has answered False on a hand that holds A,2,3,4,5
C4_Witness ==
    /\ call.op = "has_straight" /\ FullHand /\ WheelOnlyHand
    /\ ret.value = 0

\* C5 as stated: a hand of a tier without tiebreak payload (four of a kind,
\* full house, three of a kind, two pair, one pair) gets the same strength
\* whichever two of its cards are the hole cards.
C5_SameTierSameScore ==
    (Evaluated /\ FullHand /\ Category \in {1, 2, 5, 6, 7}) =>
        \A sp \in Resplits : evaluate_postflop_hand(sp[1], sp[2]) = ret.value

\* C5 as amended: four of a kind, full house, three of a kind and two pair
\* each have one strength, whatever the kickers, the ranks and the split into
\* hole cards and board; a one-pair hand gets 0.60 when the highest board
\* rank is the rank of a hole card and 0.50 otherwise.
C5_SameTierSameScoreButOnePair ==
    (Evaluated /\ FullHand) =>
        /\ Category = 1 => ret.value = 95
        /\ Category = 2 => ret.value = 90
        /\ Category = 5 => ret.value = 75
        /\ Category = 6 => ret.value = 65
        /\ Category \in {1, 2, 5, 6} =>
              \A sp \in Resplits :
                  evaluate_postflop_hand(sp[1], sp[2]) = ret.value
        /\ Category = 7 =>
              ret.value = (IF TopBoardInHole THEN 60 ELSE 50)

\* a one-pair hand whose highest board rank is not the lowest one and is held
\* in the hole, scored 0.60
C5_Witness ==
    /\ Evaluated /\ FullHand /\ Category = 7 /\ TopBoardInHole
    /\ \E i, j \in DOMAIN board : board[i][1] # board[j][1]
    /\ ret.value = 60

\* C8 as stated: with fewer than 5 cards in total the evaluator reports an
\* error and returns no score.
C8_ShortHandIsAnError ==
    (Evaluated /\ NumCards < 5) => ret.kind = "raise"

\* C8 as amended: with fewer than 5 cards in total the evaluator reports no
\* error; it returns 0.30 when the hole cards or the board are empty and
\* otherwise a strength of the category of the cards that are there.
C8_ShortHandIsScored ==
    (Evaluated /\ NumCards < 5) =>
        /\ ret.kind = "return"
        /\ ret.value = 30 <=> (hand = <<>> \/ board = <<>>)
        /\ (hand # <<>> /\ board # <<>>) =>
              ret.value \in CategoryScores[Category]

\* a three-card hand (hole cards and one board card) scored as one pair
C8_Witness ==
    /\ Evaluated /\ Len(hand) = 2 /\ Len(board) = 1
    /\ Category = 7
    /\ ret.kind = "return" /\ ret.value \in {60, 50}

----------------------------------------------------------------------------
(* Claims about the preflop evaluator, checked under SpecPreflop.          *)

HoleHigh ==
    IF FaceValue[hand[1][1]] >= FaceValue[hand[2][1]]
    THEN FaceValue[hand[1][1]] ELSE FaceValue[hand[2][1]]

HoleLow ==
    IF FaceValue[hand[1][1]] <= FaceValue[hand[2][1]]
    THEN FaceValue[hand[1][1]] ELSE FaceValue[hand[2][1]]

HoleSuited == hand[1][2] = hand[2][2]

\* two valid cards of adjacent ranks that the pair, premium, ace and broadway
\* rules do not catch
UncaughtConnector ==
    /\ Len(hand) = 2
    /\ \A i \in 1 .. 2 : hand[i][1] \in DOMAIN FaceValue
    /\ HoleHigh - HoleLow = 1
    /\ HoleHigh # 14
    /\ ~(HoleHigh >= 11 /\ HoleLow >= 10)
    /\ ~(HoleHigh >= 12 /\ HoleLow >= 9)

\* C9: uncaught connectors get 0.50 when suited with a high card of T or
\* above, 0.40 when suited with a lower high card of 6 or above, 0.30 when
\* suited otherwise, and 0.35 when offsuit with a high card of T or above.
C9_ConnectorStrengths ==
    (call.op = "get_preflop_hand_strength" /\ UncaughtConnector) =>
        /\ ret.kind = "return"
        /\ (HoleSuited /\ HoleHigh >= 10) => ret.value = 50
        /\ (HoleSuited /\ HoleHigh >= 6 /\ HoleHigh < 10) => ret.value = 40
        /\ (HoleSuited /\ HoleHigh < 6) => ret.value = 30
        /\ (~HoleSuited /\ HoleHigh >= 10) => ret.value = 35

----------------------------------------------------------------------------
(* Claims about get_action, checked under Spec.                            *)

GotAction == call.op = "get_action"

\* the player's current bet, when the round state lets it be read
OwnBet ==
    IF 1 \in DOMAIN call.round_state.player_bets
    THEN call.round_state.player_bets[1]
    ELSE 0

Owed == call.round_state.current_bet - OwnBet

\* the amount to call, clamped to the remaining chips
ToCall == IF Owed > call.remaining_chips THEN call.remaining_chips ELSE Owed

BetsUnreadable == ~call.round_state.has_player_bets

\* a preflop decision on a hand with a character that is no rank
HandUnreadable ==
    /\ call.round_state.round_num = 1
    /\ Len(hand) = 2
    /\ \E i \in 1 .. 2 : hand[i][1] \notin DOMAIN FaceValue

\* the fallback of the claim: CHECK 0 when nothing is owed, CALL of the owed
\* amount when it is at most remaining_chips // 20, FOLD 0 otherwise
ClaimedFallback ==
    IF Owed = 0 THEN Action("CHECK", 0)
    ELSE IF Owed <= call.remaining_chips \div 20 THEN Action("CALL", Owed)
    ELSE Action("FOLD", 0)

\* C6: no failure leaves get_action; when a step fails, the reading of the
\* player's current bet included, get_action returns the fallback action.
C6_FailureNeverEscapes ==
    GotAction =>
        /\ ret.kind = "return"
        /\ (HandUnreadable /\ ~BetsUnreadable) => ret = ClaimedFallback

\* C7: two bots that differ only in the contents of opponent_stats return
\* the same action and amount (or fail alike) on every get_action call with
\* the same round state, remaining chips and random draw.
C7_StatsNeverRead == GotAction => ret = shadow_ret

\* both bots have tracked opponents, with different counters, and raise
C7_Witness ==
    /\ GotAction
    /\ DOMAIN opponent_stats # {}
    /\ opponent_stats # shadow_stats
    /\ ret.kind = "return" /\ ret.action = "RAISE" /\ ret.amount > 0

WellFormedCall ==
    /\ GotAction
    /\ ~BetsUnreadable
    /\ 0 <= OwnBet /\ OwnBet <= call.round_state.current_bet
    /\ call.round_state.pot >= 0
    /\ call.remaining_chips >= 0

\* C10: on a round state with 0 <= own bet <= current_bet and pot >= 0 and
\* with remaining_chips >= 0, get_action returns an action with
\* 0 <= amount <= remaining_chips; CHECK and FOLD carry 0; CHECK comes only
\* when the clamped amount to call is 0; CALL carries exactly
\* min(current_bet - own bet, remaining_chips).
C10_ActionAmountBounds ==
    WellFormedCall =>
        /\ ret.kind = "return"
        /\ ret.action \in {"FOLD", "CHECK", "CALL", "RAISE"}
        /\ 0 <= ret.amount /\ ret.amount <= call.remaining_chips
        /\ ret.action \in {"CHECK", "FOLD"} => ret.amount = 0
        /\ ret.action = "CHECK" => ToCall = 0
        /\ ret.action = "CALL" => ret.amount = ToCall

\* a CALL of all the remaining chips, less than what is owed
C10_Witness ==
    /\ WellFormedCall
    /\ Owed > call.remaining_chips
    /\ ret.action = "CALL" /\ ret.amount = call.remaining_chips
    /\ ret.amount > 0

----------------------------------------------------------------------------
(* The claim about performance_history, checked under SpecHistory.         *)

EndGames == engine.end_games

\* the delta of the k-th on_end_game call: its player_score minus the
\* starting chips of the latest on_start before it (the 1000 of __init__
\* when no on_start came before it)
DeltaOfCall(k) == EndGames[k].player_score - EndGames[k].starting_chips

\* how many calls the history should hold
Kept == IF Len(EndGames) < 10 THEN Len(EndGames) ELSE 10

\* C11: once on_end_game has run, performance_history holds at most 10
\* entries, and they are the deltas of the most recent on_end_game calls in
\* call order, each delta being player_score minus the starting_chips set by
\* the latest on_start before that call.
C11_HistoryIsRecentDeltas ==
    /\ performance_history.hasattr <=> Len(EndGames) > 0
    /\ performance_history.hasattr =>
          /\ Len(performance_history.list) <= 10
          /\ Len(performance_history.list) = Kept
          /\ \A i \in 1 .. Kept :
                performance_history.list[i] =
                    DeltaOfCall(Len(EndGames) - Kept + i)

\* more than 10 games have ended, the first one with another delta than the
\* eleventh, and the kept games were started with different stacks
C11_Witness ==
    /\ Len(EndGames) > 10
    /\ Len(performance_history.list) = 10
    /\ DeltaOfCall(1) # DeltaOfCall(11)
    /\ \E i, j \in (Len(EndGames) - 9) .. Len(EndGames) :
          EndGames[i].starting_chips # EndGames[j].starting_chips

====
